---- MODULE Spec2Model ----
(***************************************************************************)
(* A model of the orderbook-reflex market engine: the venue allocator      *)
(* (ExchangeBookGenerator), the learned quote model and its tick sampler   *)
(* (QuoteModel, QuoteGenerator) and the session driver with its pivot      *)
(* buffer (PriceModel).                                                    *)
(*                                                                         *)
(* Units.  Prices, price changes and spreads are integers counting         *)
(* half-cents (0.005 USD), the quantum of the dp bin: 100.00 USD is 20000. *)
(* Sizes are integers counting shares.  A price on the cent grid is an     *)
(* even number of half-cents.                                              *)
(***************************************************************************)
EXTENDS Integers, Sequences, FiniteSets, TLC

VARIABLES
    exchs,      \* ExchangeBookGenerator.exchs: the venue names, in table order
    share_p,    \* ExchangeBookGenerator.share_p: the normalised share per venue
    kvals,      \* ExchangeBookGenerator.kvals: the offsets, in ticks
    gpc,        \* where the call of generate stands: "call", "return", "raise"
    nbbo,       \* the NBBO tick handed to generate
    quotes,     \* the venue quotes generate returned
    shares,     \* ExchangeBookGenerator.shares: the table given to __init__
    ds_pc,      \* where _dirichlet_sizes stands: "surplus", "deficit", "done"
    ds_total,   \* _dirichlet_sizes: its argument total
    ds_n,       \* _dirichlet_sizes: its argument n
    ds_sizes,   \* _dirichlet_sizes: the array sizes
    ds_diff,    \* _dirichlet_sizes: diff = total - sizes.sum()
    transition,         \* QuoteModel.transition: (regime, sign) -> Counter of bins
    ticks_per_regime,   \* QuoteModel.ticks_per_regime
    seconds_per_regime, \* QuoteModel.seconds_per_regime
    qpc,        \* the life of the quote model: "learn", then "gen" (or "idle")
    learned,    \* the number of update_second calls made
    last_feats, \* the argument feats of the last update_second call
    bid,        \* QuoteGenerator.bid
    ask,        \* QuoteGenerator.ask
    ticks,      \* the ticks the last step_second returned
    calls,      \* the number of step_second calls made
    last_call,  \* the arguments (regime, sign) of the last step_second call
    sampled,    \* the draws of sample_tick in that call: its key and its result
    exported,   \* the three-map record convert_model_to_json writes
    imported,   \* the model read back from that record
    ppc,        \* the life of the PriceModel: "idle", then "run"
    window,     \* PriceModel.window
    buffer,     \* PriceModel.buffer: the deque of {bid, ask, mid}, oldest first
    pivot,      \* PriceModel.pivot: "PH", "PL" or "None"
    pivot_bid,  \* PriceModel.pivot_bid
    pivot_ask,  \* PriceModel.pivot_ask
    best_bid,   \* PriceModel.best_bid
    best_ask,   \* PriceModel.best_ask
    last_exchange_quotes,   \* PriceModel.last_exchange_quotes
    updates,    \* the number of update calls made
    spc,                \* the life of the SignalModel: "idle", then "run"
    reaction_window,    \* SignalModel.reaction_window, in microseconds
    current_signal,     \* SignalModel.current_signal: "ENTRY", "EXIT" or "None"
    signal_timestamp,   \* SignalModel.signal_timestamp: <<>> for None, else <<t>>
    results,            \* SignalModel.results: the list of (rt, ok)
    returned            \* what the last record_reaction returned

bookVars == <<exchs, share_p, kvals, gpc, nbbo, quotes, shares>>

sizeVars == <<ds_pc, ds_total, ds_n, ds_sizes, ds_diff>>

jsonVars == <<exported, imported>>

signalVars == <<spc, reaction_window, current_signal, signal_timestamp, results,
                returned>>

modelVars == <<transition, ticks_per_regime, seconds_per_regime>>

quoteVars == <<transition, ticks_per_regime, seconds_per_regime,
               qpc, learned, last_feats, bid, ask, ticks, calls, last_call, sampled>>

priceVars == <<ppc, window, buffer, pivot, pivot_bid, pivot_ask,
               best_bid, best_ask, last_exchange_quotes, updates>>

vars == <<exchs, share_p, kvals, gpc, nbbo, quotes, shares,
          ds_pc, ds_total, ds_n, ds_sizes, ds_diff,
          transition, ticks_per_regime, seconds_per_regime,
          qpc, learned, last_feats, bid, ask, ticks, calls, last_call, sampled,
          exported, imported,
          ppc, window, buffer, pivot, pivot_bid, pivot_ask,
          best_bid, best_ask, last_exchange_quotes, updates,
          spc, reaction_window, current_signal, signal_timestamp, results,
          returned>>

\* ------------------------------------------------------------------ helpers

Min2(a, b) == IF a <= b THEN a ELSE b

Max2(a, b) == IF a >= b THEN a ELSE b

Range(s) == {s[i] : i \in DOMAIN s}

RECURSIVE SumSeq(_)
SumSeq(s) == IF s = <<>> THEN 0 ELSE Head(s) + SumSeq(Tail(s))

\* max(mids), min(mids) of a non-empty sequence of integers
MaxOf(s) == CHOOSE m \in Range(s) : \A x \in Range(s) : x <= m

MinOf(s) == CHOOSE m \in Range(s) : \A x \in Range(s) : m <= x

\* numpy argmax: the first index holding the maximum
ArgMax(s) == CHOOSE i \in DOMAIN s :
                 /\ \A j \in DOMAIN s : s[j] <= s[i]
                 /\ \A j \in DOMAIN s : j < i => s[j] < s[i]

\* ------------------------------------------------------------ bounds, units

\* the largest side size of an input tick, in half lots of 50 shares
MaxHalfLots == 8

\* the most seconds of history update_second learns
MaxSeconds == 2

\* the most features in one second of history
MaxFeats == 2

\* the most ticks one Poisson draw yields
MaxTicks == 2

\* the most step_second calls of one session
MaxCalls == 2

\* window_seconds, the half width of the pivot buffer
Window == 1

\* the most reactions a SignalModel records in a session
MaxResults == 42

\* the reactions of a session that may miss: from reaction MaxEarly + 1 on the
\* trainee presses the key of the signal, DelayFast after it
MaxEarly == 6

\* the most update calls of one session
MaxUpdates == 3

\* the largest share, in hundredths and in absolute value, of a table given to
\* the constructor of the allocator
MaxShare == 2

\* the largest number n of blocks asked of _dirichlet_sizes
MaxBlocks == 4

\* the displayed lot: the literal 100 of the allocator
Lot == 100

\* ExchangeBookGenerator.TICK = 0.01, in half-cents
TICK == 2

\* the least and the greatest number of active venues
MinVenues == 3

MaxVenues == 7

\* round(x, 2) of a price of h half-cents.  A price on the cent grid is its own
\* rounding.  A price ending in half a cent is a tie in decimal, and the binary
\* double that stands for it lies a little above or a little below the tie, so
\* Python rounds it up or down by the representation error: `up' is that
\* direction, an input of the step that rounds.
Round2(h, up) == IF h % 2 = 0 THEN h ELSE IF up THEN h + 1 ELSE h - 1

\* ------------------------------------------------- ExchangeBookGenerator

\* DEFAULT_SHARES, in table order, the shares in hundredths
DEFAULT_SHARES ==
    << <<"NSDQ", 30>>, <<"ARCA", 18>>, <<"BATS", 10>>, <<"BATY", 6>>,
       <<"EDGA", 3>>,  <<"EDGX", 7>>,  <<"IEXG", 5>>,  <<"AMEX", 3>>,
       <<"NYSE", 12>>, <<"PHLX", 1>>,  <<"MEMX", 3>>,  <<"MIAX", 1>>,
       <<"BOSX", 0>>,  <<"LTSE", 1>> >>

\* DEFAULT_OFFSETS, in table order: <<offset in ticks, probability in hundredths>>
DEFAULT_OFFSETS == << <<0, 35>>, <<1, 30>>, <<-1, 20>>, <<2, 10>>, <<-2, 5>> >>

\* The tables the allocator of this model is constructed with (the `shares'
\* and `offsets_p' arguments): the first venues of DEFAULT_SHARES with the
\* zero-share venue BOSX, and the offsets of DEFAULT_OFFSETS within one tick.
ConfShares == SelectSeq(DEFAULT_SHARES,
                  LAMBDA e : e[1] \in {"NSDQ", "ARCA", "BATS", "BATY", "BOSX"})

ConfOffsets == SelectSeq(DEFAULT_OFFSETS, LAMBDA e : e[1] \in {-1, 0, 1})

\* __init__: exchs, share_p = shares / total_share, kvals (offset_p is read
\* only through its support: every configured offset has a positive weight)
InitExchs(table) == [i \in DOMAIN table |-> table[i][1]]

InitShareP(table) ==
    LET total_share == SumSeq([i \in DOMAIN table |-> table[i][2]])
    IN  [i \in DOMAIN table |-> [num |-> table[i][2], den |-> total_share]]

InitKvals(offsets_p) == [i \in DOMAIN offsets_p |-> offsets_p[i][1]]

\* VenueCounts with the upper end of rng.integers taken as inclusive
VenueCountsInclusive(total_size) ==
    LET max_n == Min2(MaxVenues, Max2(1, total_size \div Lot))
    IN  IF max_n >= MinVenues THEN MinVenues .. (max_n + 1) ELSE {1}

\* _pick_exchanges: the venue counts rng.integers(3, max_n + 1) can return
VenueCounts(total_size) ==
    LET max_n == Min2(MaxVenues, Max2(1, total_size \div Lot))
    IN  IF max_n >= MinVenues THEN MinVenues .. max_n ELSE {1}

\* rng.choice(exchs, size=n, replace=False, p=share_p): n venues, none twice,
\* none of probability zero, in the order drawn.  numpy raises ValueError when
\* fewer than n venues have a positive probability: the set is then empty.
ChoiceNoReplace(n) ==
    LET pos == {i \in DOMAIN exchs : share_p[i].num > 0}
    IN  {[j \in 1..n |-> exchs[f[j]]] :
            f \in {g \in [1..n -> pos] : \A a, b \in 1..n : a # b => g[a] # g[b]}}

PickExchanges(total_size) ==
    UNION {ChoiceNoReplace(n) : n \in VenueCounts(total_size)}

\* np.floor(w * total / 100) for a Dirichlet draw w (w[i] >= 0, sum 1): the lot
\* counts c with  sum c <= total/100 <= sum c + n  (every w*total/100 lies in
\* [c, c+1), the last bound reached only by rounding)
DirichletFloors(total, n) ==
    {c \in [1..n -> 0 .. (total \div Lot)] :
        LET s == SumSeq(c) IN Lot * s <= total /\ total <= Lot * (s + n)}

\* sizes = floor(..) * 100 ; sizes[sizes == 0] = 100
RaiseZeros(c) == [i \in DOMAIN c |-> IF c[i] = 0 THEN Lot ELSE c[i] * Lot]

\* the test of the surplus loop with no lot kept back
SurplusCanTakeLast(sizes, idx) == sizes[idx] >= Lot

\* the test of the surplus loop: sizes[idx] > 100
SurplusCanTake(sizes, idx) == sizes[idx] > Lot

\* while diff < 0: take a lot from the largest block, if it holds more than one
RECURSIVE Surplus(_, _)
Surplus(sizes, diff) ==
    IF diff < 0
    THEN LET idx == ArgMax(sizes)
         IN  IF SurplusCanTake(sizes, idx)
             THEN Surplus([sizes EXCEPT ![idx] = @ - Lot], diff + Lot)
             ELSE <<sizes, diff>>
    ELSE <<sizes, diff>>

\* while diff > 0: add a lot to the block rng.integers(n) names; the set of
\* the arrays the loop can end with
RECURSIVE Deficit(_, _)
Deficit(sizes, diff) ==
    IF diff > 0
    THEN UNION {Deficit([sizes EXCEPT ![idx] = @ + Lot], diff - Lot) :
                    idx \in DOMAIN sizes}
    ELSE {sizes}

\* _dirichlet_sizes(total, n): the arrays it can return
DirichletSizes(total, n) ==
    IF n = 1
    THEN {<<total>>}
    ELSE UNION {LET sizes == RaiseZeros(c)
                    s     == Surplus(sizes, total - SumSeq(sizes))
                IN  Deficit(s[1], s[2]) : c \in DirichletFloors(total, n)}

\* _draw_offsets(n, ensure_best): the arrays k * TICK it can return
DrawOffsets(n, ensure_best) ==
    LET ks == [1..n -> Range(kvals)]
        forced(k) == IF ensure_best /\ \A i \in 1..n : k[i] # 0
                     THEN {[k EXCEPT ![j] = 0] : j \in 1..n}
                     ELSE {k}
    IN  {[i \in 1..n |-> k[i] * TICK] : k \in UNION {forced(k0) : k0 \in ks}}

\* generate, lines 137-152: a volume on the NBBO line(s) of one side
NbboVolume(sizes, off) ==
    LET nbbo_idx == {i \in DOMAIN off : off[i] = 0}
        first    == CHOOSE i \in nbbo_idx : \A j \in nbbo_idx : i <= j
        least    == MinOf([i \in 1..Cardinality(nbbo_idx) |->
                        sizes[CHOOSE j \in nbbo_idx :
                            Cardinality({x \in nbbo_idx : x < j}) = i - 1]])
        deficit  == Lot - least
        donor    == ArgMax(sizes)
    IN  IF least < Lot /\ sizes[donor] - deficit >= Lot
        THEN LET taken == [sizes EXCEPT ![donor] = @ - deficit]
             IN  [taken EXCEPT ![first] = @ + deficit]
        ELSE sizes

\* generate, lines 154-165: one quote per venue.  The tick's prices and the
\* offsets are on the cent grid, so round(.., 2) meets no tie here.
BuildQuotes(tick, ex, bid_sizes, ask_sizes, bid_off, ask_off) ==
    [i \in DOMAIN ex |->
        [time     |-> tick.time,
         exchange |-> ex[i],
         priceBid |-> Round2(tick.priceBid + bid_off[i], FALSE),
         sizeBid  |-> bid_sizes[i],
         priceAsk |-> Round2(tick.priceAsk + ask_off[i], FALSE),
         sizeAsk  |-> ask_sizes[i]]]

\* generate(tick), lines 125-165, returning q: every draw of the random source
\* is an input.  PickExchanges is not empty here.
GenerateReturns(tick, q) ==
    \E ex \in PickExchanges(Min2(tick.sizeBid, tick.sizeAsk)) :
        LET n == Len(ex) IN
        \E bid_sizes \in DirichletSizes(tick.sizeBid, n),
           ask_sizes \in DirichletSizes(tick.sizeAsk, n),
           bid_off \in DrawOffsets(n, TRUE),
           ask_off \in DrawOffsets(n, TRUE) :
            q = BuildQuotes(tick, ex,
                    NbboVolume(bid_sizes, bid_off),
                    NbboVolume(ask_sizes, ask_off),
                    bid_off, ask_off)

\* rng.choice raises ValueError: too few venues of positive share
GenerateRaises(tick) == PickExchanges(Min2(tick.sizeBid, tick.sizeAsk)) = {}

\* the NBBO ticks handed to generate: both sides any number of half lots
Ticks ==
    {[time |-> 0, priceBid |-> 20000, priceAsk |-> 20004,
      sizeBid |-> 50 * b, sizeAsk |-> 50 * a] : b, a \in 1..MaxHalfLots}

NoTick == [time |-> 0, priceBid |-> 0, priceAsk |-> 0, sizeBid |-> 0, sizeAsk |-> 0]

\* ---------------------------------------------------------- QuoteModel

Regimes == {<<"M", "B">>, <<"M", "O">>, <<"N", "B">>, <<"N", "O">>}

Signs == {"U", "D", "F"}

\* the sign of a price change: "U" if dp > 0 else "D" if dp < 0 else "F"
SignOf(dp) == IF dp > 0 THEN "U" ELSE IF dp < 0 THEN "D" ELSE "F"

\* the quanta of the three bins: 0.005 and 0.01 in half-cents, 100 shares
DpQuantum == 1

SpreadQuantum == 2

SizeQuantum == 100

\* _bin: int(round(x / quantum)), Python's round to the nearest integer, a tie
\* to the even one.  The features of this model are whole half-cents, whole
\* cents and shares, for which x / quantum is exact at a tie.
Bin(x, quantum) ==
    LET f == x \div quantum
        r == x % quantum
    IN  IF 2 * r < quantum THEN f
        ELSE IF 2 * r > quantum THEN f + 1
        ELSE IF f % 2 = 0 THEN f ELSE f + 1

\* the features of historical ticks: a rise and a fall of half a cent, an
\* unchanged quote, a fall inside a breakout second, a collapse of the price
\* inside a momentum second
FeatUp ==
    [dp |-> 1, spread |-> 2, size |-> 100, is_momentum |-> FALSE, is_breakout |-> FALSE]

FeatDown ==
    [dp |-> -1, spread |-> 2, size |-> 300, is_momentum |-> FALSE, is_breakout |-> FALSE]

FeatFlat ==
    [dp |-> 0, spread |-> 4, size |-> 250, is_momentum |-> FALSE, is_breakout |-> FALSE]

\* a rise and a fall of a whole cent
FeatUpCent ==
    [dp |-> 2, spread |-> 2, size |-> 100, is_momentum |-> FALSE, is_breakout |-> FALSE]

FeatDownCent ==
    [dp |-> -2, spread |-> 2, size |-> 300, is_momentum |-> FALSE, is_breakout |-> FALSE]

FeatBreak ==
    [dp |-> -1, spread |-> 2, size |-> 400, is_momentum |-> FALSE, is_breakout |-> TRUE]

FeatCrash ==
    [dp |-> -20000, spread |-> 0, size |-> 400, is_momentum |-> TRUE, is_breakout |-> FALSE]

\* the features of one historical tick that update_second is fed with
FeatSet == {FeatUp, FeatBreak, FeatFlat, FeatCrash}

\* the time-ordered, non-empty lists of features of one second
FeatLists == UNION {[1..k -> FeatSet] : k \in 1..MaxFeats}

\* QuoteModel.__init__: no bucket, no count
EmptyTransition == [key \in {} |-> <<>>]

ZeroCounter == [r \in Regimes |-> 0]

\* Counter[val] += 1
CounterAdd(counter, val) ==
    IF val \in DOMAIN counter
    THEN [counter EXCEPT ![val] = @ + 1]
    ELSE [v \in DOMAIN counter \cup {val} |-> IF v = val THEN 1 ELSE counter[v]]

\* defaultdict(Counter)[key]: a key never seen is inserted with an empty Counter
Touch(tr, key) ==
    IF key \in DOMAIN tr
    THEN tr
    ELSE [k \in DOMAIN tr \cup {key} |-> IF k = key THEN <<>> ELSE tr[k]]

\* update_second, step 4: one count per feature in the bucket of the second
RECURSIVE CountFeats(_, _, _)
CountFeats(tr, key, feats) ==
    IF feats = <<>>
    THEN tr
    ELSE LET f   == Head(feats)
             val == <<Bin(f.dp, DpQuantum), Bin(f.spread, SpreadQuantum),
                      Bin(f.size, SizeQuantum)>>
             t1  == Touch(tr, key)
         IN  CountFeats([t1 EXCEPT ![key] = CounterAdd(@, val)], key, Tail(feats))

\* the regime read off the last feature of the second alone
RegimeOfLast(feats) ==
    << IF feats[Len(feats)].is_momentum THEN "M" ELSE "N",
       IF feats[Len(feats)].is_breakout THEN "B" ELSE "O" >>

\* the regime of a second: "M" if any feature is momentum else "N", "B" if any
\* is breakout else "O"
RegimeOf(feats) ==
    << IF \E i \in DOMAIN feats : feats[i].is_momentum THEN "M" ELSE "N",
       IF \E i \in DOMAIN feats : feats[i].is_breakout THEN "B" ELSE "O" >>

\* the three tables of a QuoteModel after update_second(feats), feats not empty
Learn(m, feats) ==
    LET regime == RegimeOf(feats)
        sign   == SignOf(feats[Len(feats)].dp)
    IN  [transition |-> CountFeats(m.transition, <<regime, sign>>, feats),
         ticks_per_regime |-> [m.ticks_per_regime EXCEPT ![regime] = @ + Len(feats)],
         seconds_per_regime |-> [m.seconds_per_regime EXCEPT ![regime] = @ + 1]]

\* update_second(feats), feats not empty
UpdateSecond ==
    /\ qpc = "learn"
    /\ learned < MaxSeconds
    /\ \E feats \in FeatLists :
        LET m == Learn([transition |-> transition,
                        ticks_per_regime |-> ticks_per_regime,
                        seconds_per_regime |-> seconds_per_regime], feats)
        IN  /\ ticks_per_regime' = m.ticks_per_regime
            /\ seconds_per_regime' = m.seconds_per_regime
            /\ transition' = m.transition
            /\ last_feats' = feats
    /\ learned' = learned + 1
    /\ UNCHANGED <<qpc, bid, ask, ticks, calls, last_call, sampled>>
    /\ UNCHANGED bookVars
    /\ UNCHANGED sizeVars
    /\ UNCHANGED jsonVars
    /\ UNCHANGED signalVars
    /\ UNCHANGED priceVars

\* QuoteModel(): the tables before any second is learned
EmptyModel ==
    [transition |-> EmptyTransition,
     ticks_per_regime |-> ZeroCounter,
     seconds_per_regime |-> ZeroCounter]

\* no step_second call yet
NoCall == [regime |-> <<"-", "-">>, sign |-> "-"]

\* no record written yet
NoJson == [transition |-> <<>>, ticks_per_regime |-> <<>>, seconds_per_regime |-> <<>>]

\* run(): update_second on each second of a history, in time order
RECURSIVE LearnAll(_, _)
LearnAll(m, history) ==
    IF history = <<>> THEN m ELSE LearnAll(Learn(m, Head(history)), Tail(history))

\* ----------------------------------------------- convert_model_to_json

\* A string is the sequence of its characters.

\* f"{n}" of an integer n: its decimal digits, a minus sign first if negative
DigitChar(d) == <<"0", "1", "2", "3", "4", "5", "6", "7", "8", "9">>[d + 1]

RECURSIVE NatToChars(_)
NatToChars(n) ==
    IF n < 10 THEN <<DigitChar(n)>>
    ELSE Append(NatToChars(n \div 10), DigitChar(n % 10))

IntToChars(n) == IF n < 0 THEN <<"-">> \o NatToChars(0 - n) ELSE NatToChars(n)

\* f"{k[0]},{k[1]}" of a regime
RegimeOnlyKey(k) == <<k[1], ",", k[2]>>

\* the key of a bucket with the first letter of the regime written twice
RegimeKeyTypo(key) == <<key[1][1], ",", key[1][1], ",", key[2]>>

\* regime_key = f"{key[0][0]},{key[0][1]},{key[1]}"
RegimeKey(key) == <<key[1][1], ",", key[1][2], ",", key[2]>>

\* bin_key = f"{dp_bin},{spread_bin},{size_bin}"
BinKey(val) ==
    IntToChars(val[1]) \o <<",">> \o IntToChars(val[2]) \o <<",">> \o IntToChars(val[3])

\* bin_dict of one Counter: a later entry of the same string key replaces an
\* earlier one
BinDict(counter) ==
    [b \in {BinKey(v) : v \in DOMAIN counter} |->
        counter[CHOOSE v \in DOMAIN counter : BinKey(v) = b]]

\* json_model: the three maps.  A Counter holds the regimes that were counted.
Export(m) ==
    [transition |->
        [k \in {RegimeKey(key) : key \in DOMAIN m.transition} |->
            BinDict(m.transition[CHOOSE key \in DOMAIN m.transition :
                                    RegimeKey(key) = k])],
     ticks_per_regime |->
        [k \in {RegimeOnlyKey(r) : r \in {x \in Regimes : m.ticks_per_regime[x] > 0}} |->
            m.ticks_per_regime[CHOOSE r \in Regimes : RegimeOnlyKey(r) = k]],
     seconds_per_regime |->
        [k \in {RegimeOnlyKey(r) : r \in {x \in Regimes : m.seconds_per_regime[x] > 0}} |->
            m.seconds_per_regime[CHOOSE r \in Regimes : RegimeOnlyKey(r) = k]]]

\* the fields of a flattened key: the pieces between its commas
RECURSIVE SplitComma(_, _, _)
SplitComma(chars, piece, out) ==
    IF chars = <<>> THEN Append(out, piece)
    ELSE IF Head(chars) = ","
         THEN SplitComma(Tail(chars), <<>>, Append(out, piece))
         ELSE SplitComma(Tail(chars), Append(piece, Head(chars)), out)

\* the integer a decimal string denotes
DigitValue(c) == CHOOSE d \in 0..9 : DigitChar(d) = c

RECURSIVE CharsToNat(_, _)
CharsToNat(chars, acc) ==
    IF chars = <<>> THEN acc
    ELSE CharsToNat(Tail(chars), 10 * acc + DigitValue(Head(chars)))

CharsToInt(chars) ==
    IF Head(chars) = "-" THEN 0 - CharsToNat(Tail(chars), 0) ELSE CharsToNat(chars, 0)

\* the import: each flattened key is split at its commas and its fields are
\* read back; a regime absent from a count map counts zero
ParseRegimeKey(k) ==
    LET f == SplitComma(k, <<>>, <<>>) IN <<<<f[1][1], f[2][1]>>, f[3][1]>>

ParseBinKey(b) ==
    LET f == SplitComma(b, <<>>, <<>>)
    IN  <<CharsToInt(f[1]), CharsToInt(f[2]), CharsToInt(f[3])>>

ParseCounts(map) ==
    [r \in Regimes |->
        IF RegimeOnlyKey(r) \in DOMAIN map THEN map[RegimeOnlyKey(r)] ELSE 0]

Import(json) ==
    [transition |->
        [key \in {ParseRegimeKey(k) : k \in DOMAIN json.transition} |->
            LET dict == json.transition[CHOOSE k \in DOMAIN json.transition :
                                            ParseRegimeKey(k) = key]
            IN  [v \in {ParseBinKey(b) : b \in DOMAIN dict} |->
                    dict[CHOOSE b \in DOMAIN dict : ParseBinKey(b) = v]]],
     ticks_per_regime |-> ParseCounts(json.ticks_per_regime),
     seconds_per_regime |-> ParseCounts(json.seconds_per_regime)]

\* convert_model_to_json on the learned model
ExportModel ==
    /\ qpc = "learn"
    /\ qpc' = "exported"
    /\ exported' = Export([transition |-> transition,
                           ticks_per_regime |-> ticks_per_regime,
                           seconds_per_regime |-> seconds_per_regime])
    /\ UNCHANGED <<transition, ticks_per_regime, seconds_per_regime, learned, last_feats,
                   bid, ask, ticks, calls, last_call, sampled, imported>>
    /\ UNCHANGED <<bookVars, sizeVars, priceVars, signalVars>>

\* the record is read back into a model
ImportModel ==
    /\ qpc = "exported"
    /\ qpc' = "imported"
    /\ imported' = Import(exported)
    /\ UNCHANGED <<transition, ticks_per_regime, seconds_per_regime, learned, last_feats,
                   bid, ask, ticks, calls, last_call, sampled, exported>>
    /\ UNCHANGED <<bookVars, sizeVars, priceVars, signalVars>>

\* _lambda(regime) = ticks / max(1, seconds), as the pair <<ticks, seconds>>
Lambda(regime) ==
    <<ticks_per_regime[regime], Max2(1, seconds_per_regime[regime])>>

\* sample_nb_updates with a draw that ignores lam
SampleNbUpdatesAny(regime) == 0..MaxTicks

\* sample_nb_updates: np.random.poisson(lam) is 0 when lam is 0 and any count
\* otherwise (here up to MaxTicks)
SampleNbUpdates(regime) ==
    IF Lambda(regime)[1] = 0 THEN {0} ELSE 0..MaxTicks

\* sample_tick returning the bin indices as they are stored
SampleTickBins(tr, regime, sign) ==
    LET bucket == Touch(tr, <<regime, sign>>)[<<regime, sign>>]
    IN  IF DOMAIN bucket = {}
        THEN {[dp |-> 0, spread |-> 2, size |-> 100]}
        ELSE {[dp |-> val[1], spread |-> val[2], size |-> val[3]] :
                    val \in {v \in DOMAIN bucket : bucket[v] > 0}}

\* sample_tick(regime, sign) on the table tr: the ticks it can return, each
\* [dp, spread, size]; an empty bucket gives the default tick
SampleTick(tr, regime, sign) ==
    LET bucket == Touch(tr, <<regime, sign>>)[<<regime, sign>>]
    IN  IF DOMAIN bucket = {}
        THEN {[dp |-> 0, spread |-> 2, size |-> 100]}
        ELSE {[dp |-> val[1] * DpQuantum, spread |-> val[2] * SpreadQuantum,
               size |-> val[3] * SizeQuantum] :
                    val \in {v \in DOMAIN bucket : bucket[v] > 0}}

\* ------------------------------------------------------- QuoteGenerator

\* the two values round(.., 2) can return for a price
Round2Set(h) == {Round2(h, up) : up \in BOOLEAN}

\* the loop of step_second, k iterations left: the set of the final
\* [bid, ask, ticks, transition] it can reach
RECURSIVE StepLoop(_, _, _, _, _, _, _, _, _)
StepLoop(k, ts, regime, sign, b, a, out, tr, drawn) ==
    IF k = 0
    THEN {[bid |-> b, ask |-> a, ticks |-> out, transition |-> tr, sampled |-> drawn]}
    ELSE UNION {
           LET nb == b + t.dp
               na == Max2(nb + t.spread, nb + 2)
           IN  UNION {
                 StepLoop(k - 1, ts, regime, SignOf(t.dp), nb, na,
                     Append(out, [time |-> ts, priceBid |-> pb, priceAsk |-> pa,
                                  sizeBid |-> t.size \div 2,
                                  sizeAsk |-> t.size \div 2]),
                     Touch(tr, <<regime, sign>>),
                     Append(drawn, [key |-> <<regime, sign>>, tick |-> t])) :
                 <<pb, pa>> \in Round2Set(nb) \X Round2Set(na)} :
           t \in SampleTick(tr, regime, sign)}

\* QuoteGenerator(model, bid0, ask0) with the seeds of the test and of
\* PriceModel: 100.00 and 100.02
SEED_BID == 20000

SEED_ASK == 20004

NewGenerator ==
    /\ qpc = "learn"
    /\ qpc' = "gen"
    /\ bid' = SEED_BID
    /\ ask' = SEED_ASK
    /\ UNCHANGED <<transition, ticks_per_regime, seconds_per_regime, learned,
                   last_feats, ticks, calls, last_call, sampled>>
    /\ UNCHANGED bookVars
    /\ UNCHANGED sizeVars
    /\ UNCHANGED jsonVars
    /\ UNCHANGED signalVars
    /\ UNCHANGED priceVars

\* the histories the pickled model of a generator was learned from: one second
\* of regime (N, O) ending flat, or one second of regime (M, O) ending in a fall
GenHistories ==
    { << <<FeatUpCent, FeatFlat>> >>,
      << <<FeatDownCent, FeatCrash>> >> }

\* pickle.load(f), then QuoteGenerator(model, SEED_BID, SEED_ASK)
LoadGenerator ==
    /\ qpc = "learn"
    /\ learned = 0
    /\ qpc' = "gen"
    /\ \E history \in GenHistories :
        LET model == LearnAll(EmptyModel, history)
        IN  /\ transition' = model.transition
            /\ ticks_per_regime' = model.ticks_per_regime
            /\ seconds_per_regime' = model.seconds_per_regime
            /\ learned' = Len(history)
            /\ last_feats' = history[Len(history)]
    /\ bid' = SEED_BID
    /\ ask' = SEED_ASK
    /\ UNCHANGED <<ticks, calls, last_call, sampled>>
    /\ UNCHANGED bookVars
    /\ UNCHANGED sizeVars
    /\ UNCHANGED jsonVars
    /\ UNCHANGED signalVars
    /\ UNCHANGED priceVars

\* step_second(ts, regime, sign)
StepSecond ==
    /\ qpc = "gen"
    /\ calls < MaxCalls
    /\ \E regime \in Regimes, sign \in Signs :
       \E n \in SampleNbUpdates(regime) :
       \E r \in StepLoop(n, calls, regime, sign, bid, ask, <<>>, transition, <<>>) :
            /\ bid' = r.bid
            /\ ask' = r.ask
            /\ ticks' = r.ticks
            /\ transition' = r.transition
            /\ sampled' = r.sampled
            /\ last_call' = [regime |-> regime, sign |-> sign]
    /\ calls' = calls + 1
    /\ UNCHANGED <<ticks_per_regime, seconds_per_regime, qpc, learned, last_feats>>
    /\ UNCHANGED bookVars
    /\ UNCHANGED sizeVars
    /\ UNCHANGED jsonVars
    /\ UNCHANGED signalVars
    /\ UNCHANGED priceVars

\* ----------------------------------------------------------- PriceModel

\* the pivot labels: "PH", "PL" and None
NoPivot == "None"

\* one entry of the buffer: {"bid": bid, "ask": ask, "mid": mid}
Entry(b, a, m) == [bid |-> b, ask |-> a, mid |-> m]

\* (bid + ask) / 2 of two prices on the cent grid
Mid(b, a) == (b + a) \div 2

\* deque(maxlen).append: the oldest entry leaves a full deque
DequeAppendUnbounded(buf, e, maxlen) == Append(buf, e)

DequeAppend(buf, e, maxlen) ==
    IF Len(buf) >= maxlen THEN Append(Tail(buf), e) ELSE Append(buf, e)

\* update, step 3 with the centre taken at the newest entry
DetectPivotNewest(buf, win) ==
    LET centre == buf[Len(buf)]
        mids   == [i \in DOMAIN buf |-> buf[i].mid]
    IN  IF centre.mid = MaxOf(mids) THEN "PH"
        ELSE IF centre.mid = MinOf(mids) THEN "PL"
        ELSE NoPivot

\* update, step 3 with the entry after the centre taken for the centre
DetectPivotNext(buf, win) ==
    LET centre == buf[win + 2]
        mids   == [i \in DOMAIN buf |-> buf[i].mid]
    IN  IF centre.mid = MaxOf(mids) THEN "PH"
        ELSE IF centre.mid = MinOf(mids) THEN "PL"
        ELSE NoPivot

\* update, step 3: the label of the entry `window' seconds in the past
DetectPivot(buf, win) ==
    LET centre == buf[win + 1]
        mids   == [i \in DOMAIN buf |-> buf[i].mid]
    IN  IF centre.mid = MaxOf(mids) THEN "PH"
        ELSE IF centre.mid = MinOf(mids) THEN "PL"
        ELSE NoPivot

\* tick_size and spread of PriceModel.__init__: base_ask = base_bid + 0.02
BASE_BID == 20000

BASE_SPREAD == 4

\* the histories the pickled model of a session was learned from: one second of
\* a rise then an unchanged quote, or of a fall then an unchanged quote
PickledHistories ==
    { << <<FeatUpCent, FeatFlat>> >>,
      << <<FeatDownCent, FeatFlat>> >> }

\* PriceModel.__init__: the pickled model is loaded, the generator and the
\* allocator are built, the buffer is filled with 2*window+1 base snapshots
NewPriceModel ==
    /\ qpc = "learn"
    /\ ppc = "idle"
    /\ qpc' = "gen"
    /\ ppc' = "run"
    /\ \E history \in PickledHistories :
        LET quote_model == LearnAll(EmptyModel, history)
        IN  /\ transition' = quote_model.transition
            /\ ticks_per_regime' = quote_model.ticks_per_regime
            /\ seconds_per_regime' = quote_model.seconds_per_regime
            /\ learned' = Len(history)
            /\ last_feats' = history[Len(history)]
    /\ bid' = BASE_BID
    /\ ask' = BASE_BID + BASE_SPREAD
    /\ shares' = DEFAULT_SHARES
    /\ exchs' = InitExchs(DEFAULT_SHARES)
    /\ share_p' = InitShareP(DEFAULT_SHARES)
    /\ kvals' = InitKvals(DEFAULT_OFFSETS)
    /\ last_exchange_quotes' = <<>>
    /\ window' = Window
    /\ buffer' = [i \in 1..(2 * Window + 1) |->
                    Entry(BASE_BID, BASE_BID + BASE_SPREAD,
                          Mid(BASE_BID, BASE_BID + BASE_SPREAD))]
    /\ pivot' = NoPivot
    /\ pivot_bid' = BASE_BID
    /\ pivot_ask' = BASE_BID + BASE_SPREAD
    /\ best_bid' = BASE_BID
    /\ best_ask' = BASE_BID + BASE_SPREAD
    /\ UNCHANGED <<ticks, calls, last_call, sampled, gpc, nbbo, quotes, updates>>
    /\ UNCHANGED sizeVars
    /\ UNCHANGED jsonVars
    /\ UNCHANGED signalVars

\* update, step 3: on a full buffer the centre is labelled and its prices kept
LabelCentre(buf) ==
    IF Len(buf) = 2 * window + 1
    THEN /\ pivot' = DetectPivot(buf, window)
         /\ pivot_bid' = buf[window + 1].bid
         /\ pivot_ask' = buf[window + 1].ask
    ELSE UNCHANGED <<pivot, pivot_bid, pivot_ask>>

\* update, steps 2 and 3: the entry is appended and the centre is labelled
AppendAndDetect(e) ==
    LET buf == DequeAppend(buffer, e, 2 * window + 1)
    IN  /\ buffer' = buf
        /\ LabelCentre(buf)

\* the entry at the left end of the deque
OldestEntry(buf) == buf[1]

\* last_entry = self.buffer[-1]
NewestEntry(buf) == buf[Len(buf)]

\* the first tick of the second
FirstTick(ts) == ts[1]

\* last = ticks[-1]
LastTick(ts) == ts[Len(ts)]

\* PriceModel.update()
Update ==
    /\ ppc = "run"
    /\ updates < MaxUpdates
    /\ updates' = updates + 1
    /\ \E n \in SampleNbUpdates(<<"N", "O">>) :
       \E r \in StepLoop(n, updates, <<"N", "O">>, "F", bid, ask, <<>>, transition, <<>>) :
            /\ bid' = r.bid
            /\ ask' = r.ask
            /\ ticks' = r.ticks
            /\ transition' = r.transition
            /\ sampled' = r.sampled
            /\ last_call' = [regime |-> <<"N", "O">>, sign |-> "F"]
            /\ IF r.ticks # <<>>
               THEN LET last == LastTick(r.ticks) IN
                    /\ ~GenerateRaises(last)
                    /\ GenerateReturns(last, last_exchange_quotes')
                    /\ best_bid' = last.priceBid
                    /\ best_ask' = last.priceAsk
                    /\ AppendAndDetect(Entry(last.priceBid, last.priceAsk,
                                             Mid(last.priceBid, last.priceAsk)))
               ELSE LET last_entry == NewestEntry(buffer) IN
                    /\ UNCHANGED <<last_exchange_quotes, best_bid, best_ask>>
                    /\ AppendAndDetect(Entry(last_entry.bid, last_entry.ask,
                                             last_entry.mid))
    /\ UNCHANGED <<ticks_per_regime, seconds_per_regime, qpc, learned, last_feats,
                   calls, exchs, share_p, kvals, gpc, nbbo, quotes, shares, ppc,
                   window>>
    /\ UNCHANGED sizeVars
    /\ UNCHANGED jsonVars
    /\ UNCHANGED signalVars

\* ---------------------------------------------------------- SignalModel

\* Times are integers counting microseconds: 1.0 s is 1000000.

\* constants.py: 1.0 s, 0.12 s, the factor 0.90 as a percentage, 20 results,
\* the rate 0.80 as a percentage
INITIAL_REACTION_WINDOW == 1000000

MIN_REACTION_WINDOW == 120000

WINDOW_DECREASE_FACTOR == 90

ADAPTIVE_WINDOW_CHECK == 20

SUCCESS_THRESHOLD == 80

\* pygame.K_F1 and pygame.K_F12
ENTRY_KEY == "F1"

EXIT_KEY == "F12"

\* the signals trigger is called with, and the keys the trainee presses
Signals == {"ENTRY", "EXIT"}

Keys == {ENTRY_KEY, EXIT_KEY}

\* the clock at a trigger, and the delays between a trigger and the reaction
\* to it: 0.1 s and 2 s
TriggerTimes == {5000000}

DelayFast == {100000}

Delays == DelayFast \cup {2000000}

\* the key that answers a signal
KeyOf(signal) == IF signal = "ENTRY" THEN ENTRY_KEY ELSE EXIT_KEY

\* the pairs (key, now) record_reaction is called with while n reactions are
\* recorded
Reactions(n) ==
    LET t0 == IF signal_timestamp = <<>>
              THEN CHOOSE t \in TriggerTimes : TRUE
              ELSE signal_timestamp[1]
    IN  IF n < MaxEarly \/ current_signal = "None"
        THEN {<<key, t0 + d>> : key \in Keys, d \in Delays}
        ELSE {<<KeyOf(current_signal), t0 + d>> : d \in DelayFast}

\* SignalModel()
NewSignalModel ==
    /\ spc = "idle"
    /\ spc' = "run"
    /\ reaction_window' = INITIAL_REACTION_WINDOW
    /\ current_signal' = "None"
    /\ signal_timestamp' = <<>>
    /\ results' = <<>>
    /\ UNCHANGED returned
    /\ UNCHANGED <<bookVars, sizeVars, jsonVars, quoteVars, priceVars>>

\* trigger(signal, now)
Trigger ==
    /\ spc = "run"
    /\ \E signal \in Signals, now \in TriggerTimes :
           /\ current_signal' = signal
           /\ signal_timestamp' = <<now>>
    /\ UNCHANGED <<spc, reaction_window, results, returned>>
    /\ UNCHANGED <<bookVars, sizeVars, jsonVars, quoteVars, priceVars>>

\* rt = now - (self.signal_timestamp or now): None and 0.0 both give now
ReactionTime(timestamp, now) ==
    IF timestamp = <<>> THEN 0
    ELSE IF timestamp[1] = 0 THEN 0
    ELSE now - timestamp[1]

\* the test of record_reaction: the key of the signal, pressed in the window
ReactionOk(signal, key, rt, wnd) ==
    /\ \/ signal = "ENTRY" /\ key = ENTRY_KEY
       \/ signal = "EXIT" /\ key = EXIT_KEY
    /\ rt <= wnd

\* sum(1 for _, ok in window if ok) over the last ADAPTIVE_WINDOW_CHECK results
Successes(res) ==
    Cardinality({i \in (Len(res) - ADAPTIVE_WINDOW_CHECK + 1)..Len(res) : res[i][2]})

\* _adapt with the window multiplied and no floor
AdaptNoFloor(res, wnd) ==
    IF Len(res) < ADAPTIVE_WINDOW_CHECK THEN wnd
    ELSE IF 100 * Successes(res) >= SUCCESS_THRESHOLD * ADAPTIVE_WINDOW_CHECK
         THEN (wnd * WINDOW_DECREASE_FACTOR) \div 100
         ELSE wnd

\* _adapt: the reaction_window it leaves.  The product is kept to the
\* microsecond.
Adapt(res, wnd) ==
    IF Len(res) < ADAPTIVE_WINDOW_CHECK THEN wnd
    ELSE IF 100 * Successes(res) >= SUCCESS_THRESHOLD * ADAPTIVE_WINDOW_CHECK
         THEN Max2(MIN_REACTION_WINDOW, (wnd * WINDOW_DECREASE_FACTOR) \div 100)
         ELSE wnd

\* record_reaction(key, now)
RecordReaction ==
    /\ spc = "run"
    /\ Len(results) < MaxResults
    /\ \E input \in Reactions(Len(results)) :
        LET key == input[1]
            now == input[2]
        IN  IF current_signal = "None"
            THEN /\ returned' = FALSE
                 /\ UNCHANGED <<reaction_window, current_signal, results>>
            ELSE LET rt  == ReactionTime(signal_timestamp, now)
                     ok  == ReactionOk(current_signal, key, rt, reaction_window)
                     res == Append(results, <<rt, ok>>)
                 IN  /\ results' = res
                     /\ current_signal' = "None"
                     /\ reaction_window' = Adapt(res, reaction_window)
                     /\ returned' = ok
    /\ UNCHANGED <<spc, signal_timestamp>>
    /\ UNCHANGED <<bookVars, sizeVars, jsonVars, quoteVars, priceVars>>

\* -------------------------------------------------------- the sessions

\* no allocator in the session of a bare QuoteGenerator
BookIdle ==
    /\ exchs = <<>>
    /\ share_p = <<>>
    /\ kvals = <<>>
    /\ gpc = "idle"
    /\ nbbo = NoTick
    /\ quotes = <<>>
    /\ shares = <<>>

\* no call of _dirichlet_sizes is followed step by step
SizesIdle ==
    /\ ds_pc = "idle"
    /\ ds_total = 0
    /\ ds_n = 0
    /\ ds_sizes = <<>>
    /\ ds_diff = 0

\* no SignalModel in the session
SignalIdle ==
    /\ spc = "idle"
    /\ reaction_window = 0
    /\ current_signal = "None"
    /\ signal_timestamp = <<>>
    /\ results = <<>>
    /\ returned = "-"

\* no model is exported
JsonIdle ==
    /\ exported = NoJson
    /\ imported = EmptyModel

\* no quote model beside a bare allocator
QuoteIdle ==
    /\ transition = EmptyTransition
    /\ ticks_per_regime = ZeroCounter
    /\ seconds_per_regime = ZeroCounter
    /\ qpc = "idle"
    /\ learned = 0
    /\ last_feats = <<>>
    /\ bid = 0
    /\ ask = 0
    /\ ticks = <<>>
    /\ calls = 0
    /\ last_call = NoCall
    /\ sampled = <<>>

\* no PriceModel in the session
PriceIdle ==
    /\ ppc = "idle"
    /\ window = 0
    /\ buffer = <<>>
    /\ pivot = NoPivot
    /\ pivot_bid = 0
    /\ pivot_ask = 0
    /\ best_bid = 0
    /\ best_ask = 0
    /\ last_exchange_quotes = <<>>
    /\ updates = 0

\* a fresh QuoteModel, about to learn
InitQuote ==
    /\ transition = EmptyTransition
    /\ ticks_per_regime = ZeroCounter
    /\ seconds_per_regime = ZeroCounter
    /\ qpc = "learn"
    /\ learned = 0
    /\ last_feats = <<>>
    /\ bid = 0
    /\ ask = 0
    /\ ticks = <<>>
    /\ calls = 0
    /\ last_call = NoCall
    /\ sampled = <<>>
    /\ BookIdle
    /\ SizesIdle
    /\ JsonIdle
    /\ SignalIdle
    /\ PriceIdle

NextQuote == UpdateSecond \/ NewGenerator \/ StepSecond

SpecQuote == InitQuote /\ [][NextQuote]_vars

\* a SignalModel is built, then signals are triggered and reactions recorded
\* in any order
InitSignal ==
    /\ BookIdle
    /\ SizesIdle
    /\ JsonIdle
    /\ SignalIdle
    /\ QuoteIdle
    /\ PriceIdle

NextSignal == NewSignalModel \/ Trigger \/ RecordReaction

SpecSignal == InitSignal /\ [][NextSignal]_vars

\* a model is learned second after second, exported and read back
InitLearn == InitQuote

NextLearn == UpdateSecond \/ ExportModel \/ ImportModel

SpecLearn == InitLearn /\ [][NextLearn]_vars

\* a generator is built on a pickled model and stepped second after second
InitGen == InitQuote

NextGen == LoadGenerator \/ StepSecond

SpecGen == InitGen /\ [][NextGen]_vars

\* a PriceModel is constructed on a pickled model and updated every second
InitPrice == InitQuote

NextPrice == NewPriceModel \/ Update

SpecPrice == InitPrice /\ [][NextPrice]_vars

\* ------------------------------------- the pivot step on a given window

\* the mids of the scenario, in dollars, oldest first
ScenarioMids == <<10, 11, 12, 11, 10, 9, 8, 9, 10, 11, 12>>

\* the window_seconds whose buffer the scenario fills: 2 * W + 1 entries
ScenarioWindow == (Len(ScenarioMids) - 1) \div 2

\* the sequences of k mids that move by one dollar a second between the lowest
\* and the highest mid of the scenario
RECURSIVE Walks(_)
Walks(k) ==
    IF k = 1
    THEN {<<m>> : m \in Range(ScenarioMids)}
    ELSE UNION {{Append(w, m) : m \in {x \in Range(ScenarioMids) :
                                        x - w[Len(w)] = 1 \/ w[Len(w)] - x = 1}} :
                w \in Walks(k - 1)}

\* the buffer entry of a mid of m dollars under the base spread
ScenarioEntry(m) ==
    Entry(200 * m - BASE_SPREAD \div 2, 200 * m + BASE_SPREAD \div 2, 200 * m)

\* update() has appended the newest entry of a window of 2 * W + 1 seconds
InitDetect ==
    /\ ppc = "appended"
    /\ window = ScenarioWindow
    /\ buffer \in {[i \in DOMAIN w |-> ScenarioEntry(w[i])] :
                        w \in Walks(2 * ScenarioWindow + 1)}
    /\ pivot = NoPivot
    /\ pivot_bid = BASE_BID
    /\ pivot_ask = BASE_BID + BASE_SPREAD
    /\ best_bid = buffer[Len(buffer)].bid
    /\ best_ask = buffer[Len(buffer)].ask
    /\ last_exchange_quotes = <<>>
    /\ updates = 0
    /\ BookIdle
    /\ SizesIdle
    /\ JsonIdle
    /\ SignalIdle
    /\ QuoteIdle

\* update(), step 3, on the buffer just appended to
Detect ==
    /\ ppc = "appended"
    /\ ppc' = "run"
    /\ LabelCentre(buffer)
    /\ updates' = updates + 1
    /\ UNCHANGED <<window, buffer, best_bid, best_ask, last_exchange_quotes>>
    /\ UNCHANGED bookVars
    /\ UNCHANGED sizeVars
    /\ UNCHANGED jsonVars
    /\ UNCHANGED signalVars
    /\ UNCHANGED quoteVars

NextDetect == Detect

SpecDetect == InitDetect /\ [][NextDetect]_vars

\* ------------------------------------------- the allocator on one tick

\* an allocator is constructed and generate is called on one tick
InitBook ==
    /\ exchs = InitExchs(ConfShares)
    /\ share_p = InitShareP(ConfShares)
    /\ kvals = InitKvals(ConfOffsets)
    /\ gpc = "call"
    /\ nbbo \in Ticks
    /\ quotes = <<>>
    /\ shares = ConfShares
    /\ SizesIdle
    /\ JsonIdle
    /\ SignalIdle
    /\ QuoteIdle
    /\ PriceIdle

Generate ==
    /\ gpc = "call"
    /\ IF GenerateRaises(nbbo)
       THEN gpc' = "raise" /\ quotes' = <<>>
       ELSE gpc' = "return" /\ GenerateReturns(nbbo, quotes')
    /\ UNCHANGED <<exchs, share_p, kvals, nbbo, shares>>
    /\ UNCHANGED sizeVars
    /\ UNCHANGED jsonVars
    /\ UNCHANGED signalVars
    /\ UNCHANGED quoteVars
    /\ UNCHANGED priceVars

NextBook == Generate

SpecBook == InitBook /\ [][NextBook]_vars

\* ------------------------------ _dirichlet_sizes, one iteration a step

\* _dirichlet_sizes(total, n) is called: any total in half lots, any n
InitSizes ==
    /\ ds_pc = "call"
    /\ ds_total \in {50 * h : h \in 1..MaxHalfLots}
    /\ ds_n \in 1..MaxBlocks
    /\ ds_sizes = <<>>
    /\ ds_diff = 0
    /\ BookIdle
    /\ JsonIdle
    /\ SignalIdle
    /\ QuoteIdle
    /\ PriceIdle

\* lines 80-92: the single block, or the Dirichlet draw, the floor, the
\* raising of the empty blocks and diff
DsEnter ==
    /\ ds_pc = "call"
    /\ IF ds_n = 1
       THEN /\ ds_sizes' = <<ds_total>>
            /\ ds_pc' = "done"
            /\ UNCHANGED ds_diff
       ELSE \E c \in DirichletFloors(ds_total, ds_n) :
                /\ ds_sizes' = RaiseZeros(c)
                /\ ds_diff' = ds_total - SumSeq(RaiseZeros(c))
                /\ ds_pc' = "surplus"
    /\ UNCHANGED <<ds_total, ds_n>>
    /\ UNCHANGED <<bookVars, jsonVars, quoteVars, priceVars, signalVars>>

\* lines 95-101: one test of `while diff < 0' and the iteration it admits
SurplusStep ==
    /\ ds_pc = "surplus"
    /\ IF ds_diff < 0 /\ SurplusCanTake(ds_sizes, ArgMax(ds_sizes))
       THEN /\ ds_sizes' = [ds_sizes EXCEPT ![ArgMax(ds_sizes)] = @ - Lot]
            /\ ds_diff' = ds_diff + Lot
            /\ UNCHANGED ds_pc
       ELSE /\ ds_pc' = "deficit"
            /\ UNCHANGED <<ds_sizes, ds_diff>>
    /\ UNCHANGED <<ds_total, ds_n>>
    /\ UNCHANGED <<bookVars, jsonVars, quoteVars, priceVars, signalVars>>

\* lines 104-109: one test of `while diff > 0' and the iteration it admits,
\* or the return
DeficitStep ==
    /\ ds_pc = "deficit"
    /\ IF ds_diff > 0
       THEN /\ \E idx \in 1..ds_n :
                 ds_sizes' = [ds_sizes EXCEPT ![idx] = @ + Lot]
            /\ ds_diff' = ds_diff - Lot
            /\ UNCHANGED ds_pc
       ELSE /\ ds_pc' = "done"
            /\ UNCHANGED <<ds_sizes, ds_diff>>
    /\ UNCHANGED <<ds_total, ds_n>>
    /\ UNCHANGED <<bookVars, jsonVars, quoteVars, priceVars, signalVars>>

NextSizes == DsEnter \/ SurplusStep \/ DeficitStep

\* the call runs on: a step that can be taken is taken
SpecSizes == InitSizes /\ [][NextSizes]_vars /\ WF_vars(NextSizes)

\* ------------------------------------- the allocator's construction

\* the `shares' tables given to __init__: three venues, each share any number
\* of hundredths, negative ones included
ShareTables ==
    {<< <<"NSDQ", a>>, <<"ARCA", b>>, <<"BATS", c>> >> :
        a, b, c \in (0 - MaxShare) .. MaxShare}

\* ExchangeBookGenerator(shares) is about to run
InitConstruct ==
    /\ shares \in ShareTables
    /\ gpc = "new"
    /\ exchs = <<>>
    /\ share_p = <<>>
    /\ kvals = <<>>
    /\ nbbo = NoTick
    /\ quotes = <<>>
    /\ SizesIdle
    /\ JsonIdle
    /\ SignalIdle
    /\ QuoteIdle
    /\ PriceIdle

\* __init__: raises ValueError when the shares sum to zero, else normalises
Construct ==
    /\ gpc = "new"
    /\ LET total_share == SumSeq([i \in DOMAIN shares |-> shares[i][2]])
       IN  IF total_share = 0
           THEN /\ gpc' = "raise"
                /\ UNCHANGED <<exchs, share_p, kvals>>
           ELSE /\ gpc' = "built"
                /\ exchs' = InitExchs(shares)
                /\ share_p' = InitShareP(shares)
                /\ kvals' = InitKvals(DEFAULT_OFFSETS)
    /\ UNCHANGED <<nbbo, quotes, shares>>
    /\ UNCHANGED sizeVars
    /\ UNCHANGED jsonVars
    /\ UNCHANGED signalVars
    /\ UNCHANGED quoteVars
    /\ UNCHANGED priceVars

NextConstruct == Construct

SpecConstruct == InitConstruct /\ [][NextConstruct]_vars

\* ------------------------------------------------ claims on generate

BidSizes == [i \in DOMAIN quotes |-> quotes[i].sizeBid]

AskSizes == [i \in DOMAIN quotes |-> quotes[i].sizeAsk]

\* C1: the bid sizes of the returned venue quotes sum to the tick's sizeBid and
\* the ask sizes to its sizeAsk, for every tick and every draw.
C1_SizesSumToTick ==
    gpc = "return" =>
        /\ SumSeq(BidSizes) = nbbo.sizeBid
        /\ SumSeq(AskSizes) = nbbo.sizeAsk

\* C2: every returned venue quote has a sizeBid and a sizeAsk that are each a
\* strictly positive multiple of the lot, for every tick and every draw.
C2_SizesArePositiveLots ==
    gpc = "return" =>
        \A i \in DOMAIN quotes :
            /\ quotes[i].sizeBid > 0 /\ quotes[i].sizeBid % Lot = 0
            /\ quotes[i].sizeAsk > 0 /\ quotes[i].sizeAsk % Lot = 0

\* C3: on each side some venue quotes at offset zero (the NBBO price), and every
\* venue at offset zero carries at least one lot on that side.
C3_NbboLineCarriesALot ==
    gpc = "return" =>
        /\ \E i \in DOMAIN quotes : quotes[i].priceBid = nbbo.priceBid
        /\ \E i \in DOMAIN quotes : quotes[i].priceAsk = nbbo.priceAsk
        /\ \A i \in DOMAIN quotes :
              /\ quotes[i].priceBid = nbbo.priceBid => quotes[i].sizeBid >= Lot
              /\ quotes[i].priceAsk = nbbo.priceAsk => quotes[i].sizeAsk >= Lot

C5_BidBelowAsk ==
    qpc = "gen" =>
        \A i \in DOMAIN ticks : ticks[i].priceBid < ticks[i].priceAsk

\* C9: every tick step_second emits has a sizeBid and a sizeAsk of at least 100
\* shares, the default tick of an empty bucket included.
C9_SizesAtLeastALot ==
    qpc = "gen" =>
        \A i \in DOMAIN ticks : ticks[i].sizeBid >= 100 /\ ticks[i].sizeAsk >= 100

\* C10: every tick step_second emits from the seeds 100.00 and 100.02 has a
\* priceBid and a priceAsk above zero, whatever dp the transition table holds.
C10_PricesPositive ==
    qpc = "gen" =>
        \A i \in DOMAIN ticks : ticks[i].priceBid > 0 /\ ticks[i].priceAsk > 0

\* ------------------------------------------------ claims on PriceModel

\* the mids of the buffer, in dollars
BufferMids == [i \in DOMAIN buffer |-> buffer[i].mid \div 200]

\* C6 (as stated): with the mids 10, 11, 12, 11, 10, 9, 8, 9, 10, 11, 12 filling
\* a window of W = 5, the centre element (value 9) is classified a pivot Low.
C6_ScenarioCentreIsLow ==
    (ppc = "run" /\ BufferMids = ScenarioMids) => pivot = "PL"

\* C6 (amended): with the mids of the scenario filling a window of W = 5, the
\* centre element (value 9) is neither the highest nor the lowest mid of the
\* window (12 and 8) and is classified None.
C6_ScenarioCentreIsNone ==
    (ppc = "run" /\ BufferMids = ScenarioMids) =>
        /\ pivot = NoPivot
        /\ pivot_bid = buffer[6].bid
        /\ pivot_ask = buffer[6].ask

\* the pivot step has run on the window of the scenario
C6_Witness ==
    /\ ppc = "run"
    /\ window = 5
    /\ BufferMids = ScenarioMids
    /\ buffer[6].mid = 200 * 9

\* C7: after every update the pivot is a function of the buffer: PH if the mid
\* of the entry W places from the oldest end equals the highest mid of the
\* window, else PL if it equals the lowest, else None; pivot_bid and pivot_ask
\* are the bid and ask of that entry; a window of equal mids is classified PH.
C7_PivotIsFunctionOfBuffer ==
    (ppc = "run" /\ updates >= 1) =>
        LET L      == Len(buffer)
            centre == buffer[L - window]
            isMax  == \A i \in 1..L : buffer[i].mid <= centre.mid
            isMin  == \A i \in 1..L : buffer[i].mid >= centre.mid
        IN  /\ isMax => pivot = "PH"
            /\ (~isMax /\ isMin) => pivot = "PL"
            /\ (~isMax /\ ~isMin) => pivot = NoPivot
            /\ pivot_bid = centre.bid
            /\ pivot_ask = centre.ask
            /\ (\A i, j \in 1..L : buffer[i].mid = buffer[j].mid) => pivot = "PH"

\* an update has labelled PL a centre that lies below the oldest entry
C7_Witness ==
    /\ ppc = "run"
    /\ updates >= 1
    /\ pivot = "PL"
    /\ buffer[window + 1].mid < buffer[1].mid
    /\ pivot_bid = buffer[window + 1].bid

\* C8: the buffer holds 2W+1 entries after construction, all equal to the
\* initial snapshot, and after every update, which drops the oldest entry and
\* appends one newest entry; the pivot is decided only on a buffer of 2W+1
\* entries.
C8_BufferSlides ==
    [][ /\ (ppc = "idle" /\ ppc' = "run") =>
              /\ Len(buffer') = 2 * window' + 1
              /\ \A i \in DOMAIN buffer' :
                     /\ buffer'[i].bid = best_bid'
                     /\ buffer'[i].ask = best_ask'
                     /\ buffer'[i].mid = (best_bid' + best_ask') \div 2
        /\ (ppc = "run" /\ updates' # updates) =>
              /\ Len(buffer) = 2 * window + 1
              /\ Len(buffer') = 2 * window' + 1
              /\ \A i \in 1..(Len(buffer) - 1) : buffer'[i] = buffer[i + 1]
        /\ (ppc = "run" /\ <<pivot, pivot_bid, pivot_ask>>' # <<pivot, pivot_bid, pivot_ask>>) =>
              Len(buffer') = 2 * window' + 1
      ]_vars

\* an update has slid the buffer: it is full and its newest entry is not its
\* oldest one
C8_Witness ==
    /\ ppc = "run"
    /\ updates >= 1
    /\ Len(buffer) = 2 * window + 1
    /\ buffer[Len(buffer)] # buffer[1]

\* ---------------------------------------- claims on the construction

\* C11: constructing the allocator with a share table whose total is zero or
\* negative fails with an error at construction, and no instance with
\* normalised shares is produced from such a table.
C11_NonPositiveTotalRaises ==
    (gpc \in {"built", "raise"}
        /\ SumSeq([i \in DOMAIN shares |-> shares[i][2]]) <= 0) =>
            /\ gpc = "raise"
            /\ share_p = <<>>

\* ------------------------------------- claims on _dirichlet_sizes

\* C12: the surplus and deficit loops of _dirichlet_sizes terminate for every
\* total and every n (exact multiples of the lot and other totals alike), and
\* at no step of either loop does a block fall below one lot.
C12_LoopsEndAndKeepALot ==
    /\ [](ds_pc \in {"surplus", "deficit"} =>
            \A i \in DOMAIN ds_sizes : ds_sizes[i] >= Lot)
    /\ [](ds_pc = "done" /\ ds_n > 1 =>
            \A i \in DOMAIN ds_sizes : ds_sizes[i] >= Lot)
    /\ <>(ds_pc = "done")

\* the call has returned three blocks for a total that is no multiple of the
\* lot, after the deficit loop added a lot to a block of one lot or more
C12_Witness ==
    /\ ds_pc = "done"
    /\ ds_n = 3
    /\ ds_total % Lot # 0
    /\ SumSeq(ds_sizes) > ds_total
    /\ \E i \in DOMAIN ds_sizes : ds_sizes[i] > Lot

\* ------------------------------------------ claims on the generation

\* C13: lambda(regime) is tickCount / max(1, secondCount); for a regime with
\* no observation lambda is 0 and the count drawn is always 0, so step_second
\* for that regime emits no tick and leaves the running bid and ask unchanged.
C13_UnobservedRegimeIsSilent ==
    [][ (calls' = calls + 1 /\ ticks_per_regime[last_call'.regime] = 0) =>
            /\ ticks' = <<>>
            /\ bid' = bid
            /\ ask' = ask
      ]_vars

\* a step_second call for a regime never observed has returned, beside a
\* regime that was observed
C13_Witness ==
    /\ qpc = "gen"
    /\ calls >= 1
    /\ ticks_per_regime[last_call.regime] = 0
    /\ seconds_per_regime[last_call.regime] = 0
    /\ \E r \in Regimes : ticks_per_regime[r] > 0
    /\ ticks = <<>>

\* C14: sample_tick on an empty or never seen (regime, sign) bucket returns the
\* default tick (dp 0, spread one cent, size 100) and raises nothing; on a
\* bucket that is not empty it returns a tuple of positive count, each bin
\* index multiplied by its quantum (half a cent, a cent, 100 shares).
C14_SampleTickShapes ==
    qpc = "gen" =>
        /\ Len(sampled) = Len(ticks)
        /\ \A i \in DOMAIN sampled :
             LET key == sampled[i].key
                 t   == sampled[i].tick
             IN  /\ key \in DOMAIN transition
                 /\ IF DOMAIN transition[key] = {}
                    THEN t = [dp |-> 0, spread |-> 2, size |-> 100]
                    ELSE \E v \in DOMAIN transition[key] :
                            /\ transition[key][v] > 0
                            /\ t.dp = v[1]
                            /\ t.spread = 2 * v[2]
                            /\ t.size = 100 * v[3]

\* one step_second call has drawn a shape from a bucket that holds counts and
\* the default tick from an empty one
C14_Witness ==
    /\ qpc = "gen"
    /\ \E i, j \in DOMAIN sampled :
          /\ sampled[i].key \in DOMAIN transition
          /\ sampled[j].key \in DOMAIN transition
          /\ DOMAIN transition[sampled[i].key] = {}
          /\ sampled[i].tick.size = 100
          /\ DOMAIN transition[sampled[j].key] # {}
          /\ sampled[j].tick.size > 100

\* C15: during generation the learned model is read-only: no step_second call
\* (with its sample_nb_updates and sample_tick calls) changes the transition
\* table, its set of (regime, sign) keys included, nor the tick and second
\* counts, also when the bucket asked for was never observed.
C15_ModelReadOnlyInGeneration ==
    [][ qpc = "gen" =>
            /\ transition' = transition
            /\ DOMAIN transition' = DOMAIN transition
            /\ ticks_per_regime' = ticks_per_regime
            /\ seconds_per_regime' = seconds_per_regime
      ]_vars

\* C16: exporting a learned model to the three-map record and reading the
\* record back gives an equivalent model: the same tick and second counts for
\* every regime (hence the same lambda), the same buckets and the same count
\* for every bin of every bucket; distinct buckets and bins get distinct keys,
\* so the record holds as many entries as the model.
C16_ExportImportRoundTrip ==
    qpc = "imported" =>
        /\ imported.ticks_per_regime = ticks_per_regime
        /\ imported.seconds_per_regime = seconds_per_regime
        /\ DOMAIN imported.transition = DOMAIN transition
        /\ \A key \in DOMAIN transition :
               imported.transition[key] = transition[key]
        /\ Cardinality(DOMAIN exported.transition) = Cardinality(DOMAIN transition)
        /\ Cardinality({<<k, b>> \in UNION {{k} \X DOMAIN exported.transition[k] :
                                              k \in DOMAIN exported.transition} : TRUE})
             = Cardinality(UNION {{key} \X DOMAIN transition[key] :
                                     key \in DOMAIN transition})

\* a model with two buckets of one regime, one of them with a negative price
\* move, has been exported and read back
C16_Witness ==
    /\ qpc = "imported"
    /\ \E k1 \in DOMAIN transition : \E k2 \in DOMAIN transition :
           /\ k1 # k2
           /\ k1[1] = k2[1]
           /\ \E v \in DOMAIN transition[k1] : v[1] < 0

\* the sum of the counts of a Counter, and of a bucket of the table (0 for
\* a bucket the table does not hold)
RECURSIVE SumCounts(_, _)
SumCounts(counter, keys) ==
    IF keys = {} THEN 0
    ELSE LET v == CHOOSE x \in keys : TRUE
         IN  counter[v] + SumCounts(counter, keys \ {v})

BucketTotal(tr, key) ==
    IF key \in DOMAIN tr THEN SumCounts(tr[key], DOMAIN tr[key]) ELSE 0

\* C17: each update_second call on a non-empty list adds the number of
\* features to the tick count and 1 to the second count of exactly one regime
\* (momentum if any feature is momentum, breakout if any is breakout), adds
\* one count per feature to the single bucket of that regime and of the sign
\* of the last feature's dp, and leaves the other regimes and buckets as they
\* were; hence the tick count of every regime is always the sum of the counts
\* of its three sign buckets.
C17_UpdateSecondCounts ==
    /\ [][learned' = learned + 1 =>
            LET n      == Len(last_feats')
                regime == << IF \E i \in 1..n : last_feats'[i].is_momentum
                             THEN "M" ELSE "N",
                             IF \E i \in 1..n : last_feats'[i].is_breakout
                             THEN "B" ELSE "O" >>
                dp     == last_feats'[n].dp
                sign   == IF dp > 0 THEN "U" ELSE IF dp < 0 THEN "D" ELSE "F"
            IN  /\ n >= 1
                /\ \A r \in Regimes :
                       /\ ticks_per_regime'[r] =
                             ticks_per_regime[r] + (IF r = regime THEN n ELSE 0)
                       /\ seconds_per_regime'[r] =
                             seconds_per_regime[r] + (IF r = regime THEN 1 ELSE 0)
                       /\ \A s \in Signs :
                             BucketTotal(transition', <<r, s>>) =
                                 BucketTotal(transition, <<r, s>>)
                                 + (IF r = regime /\ s = sign THEN n ELSE 0)
                /\ DOMAIN transition' = DOMAIN transition \cup {<<regime, sign>>}
                /\ \A key \in DOMAIN transition \ {<<regime, sign>>} :
                       transition'[key] = transition[key]
       ]_vars
    /\ [](\A r \in Regimes :
            ticks_per_regime[r] =
                BucketTotal(transition, <<r, "U">>)
                + BucketTotal(transition, <<r, "D">>)
                + BucketTotal(transition, <<r, "F">>))

\* two seconds have been learned, the second one of two features whose first
\* alone is momentum, and the table holds two buckets
C17_Witness ==
    /\ learned = 2
    /\ Len(last_feats) = 2
    /\ last_feats[1].is_momentum
    /\ ~last_feats[2].is_momentum
    /\ Cardinality(DOMAIN transition) = 2

\* C18: among the venue quotes generate returns for an NBBO tick, the highest
\* priceBid is the tick's priceBid and the lowest priceAsk is the tick's
\* priceAsk: no venue bids above the NBBO bid or asks below the NBBO ask,
\* whatever offsets are drawn.
C18_VenuesInsideNbbo ==
    gpc = "return" =>
        /\ MaxOf([i \in DOMAIN quotes |-> quotes[i].priceBid]) = nbbo.priceBid
        /\ MinOf([i \in DOMAIN quotes |-> quotes[i].priceAsk]) = nbbo.priceAsk

\* C19: the sign chain is continuous within and across the seconds of a
\* session: in one step_second call the first shape is drawn from the bucket
\* of the incoming sign and each next one from the bucket of the sign of the
\* dp drawn before it, and the sign PriceModel.update passes to a call is the
\* sign of the dp of the last tick the call before generated.
C19_SignChainContinuous ==
    [][updates' = updates + 1 =>
          /\ sampled' # <<>> => sampled'[1].key[2] = last_call'.sign
          /\ \A i \in 1..(Len(sampled') - 1) :
                 sampled'[i + 1].key[2] = SignOf(sampled'[i].tick.dp)
          /\ sampled # <<>> =>
                 last_call'.sign = SignOf(sampled[Len(sampled)].tick.dp)
    ]_vars

\* C20: when a second produces no tick, update appends an entry equal to the
\* newest entry of the buffer and leaves best_bid, best_ask and
\* last_exchange_quotes as they were; when ticks are produced, the entry
\* appended is the one of the last tick of the second, which is also the new
\* best bid and ask and the tick the venue quotes are made for (they carry its
\* time, and some venue quotes its bid and some venue its ask).
C20_CarryForwardOrLastTick ==
    [][updates' = updates + 1 =>
          IF ticks' = <<>>
          THEN /\ buffer'[Len(buffer')] = buffer[Len(buffer)]
               /\ best_bid' = best_bid
               /\ best_ask' = best_ask
               /\ last_exchange_quotes' = last_exchange_quotes
          ELSE LET last == ticks'[Len(ticks')]
               IN  /\ buffer'[Len(buffer')] =
                        [bid |-> last.priceBid, ask |-> last.priceAsk,
                         mid |-> (last.priceBid + last.priceAsk) \div 2]
                   /\ best_bid' = last.priceBid
                   /\ best_ask' = last.priceAsk
                   /\ Len(last_exchange_quotes') >= 1
                   /\ \A i \in DOMAIN last_exchange_quotes' :
                          last_exchange_quotes'[i].time = last.time
                   /\ \E i \in DOMAIN last_exchange_quotes' :
                          last_exchange_quotes'[i].priceBid = last.priceBid
                   /\ \E i \in DOMAIN last_exchange_quotes' :
                          last_exchange_quotes'[i].priceAsk = last.priceAsk
    ]_vars

\* a second of two ticks at different prices was followed by a second with no
\* tick: the newest two entries are equal and carry the last tick's prices
C20_Witness ==
    /\ updates >= 2
    /\ ticks = <<>>
    /\ best_bid # BASE_BID
    /\ buffer[Len(buffer)] = buffer[Len(buffer) - 1]
    /\ buffer[Len(buffer)].bid = best_bid
    /\ Len(last_exchange_quotes) >= 1

\* C21: in every state of a PriceModel, after construction and after any
\* updates with or without ticks, best_bid and best_ask are the bid and the
\* ask of the newest entry of the buffer.
C21_BestIsNewestEntry ==
    ppc = "run" =>
        /\ Len(buffer) >= 1
        /\ best_bid = buffer[Len(buffer)].bid
        /\ best_ask = buffer[Len(buffer)].ask

\* a tick has moved the price away from the base and a later second had no
\* tick, while the oldest entry still holds another bid
C21_Witness ==
    /\ ppc = "run"
    /\ updates >= 2
    /\ ticks = <<>>
    /\ best_bid # BASE_BID
    /\ buffer[1].bid # best_bid

\* C22: over any interleaving of trigger and record_reaction calls,
\* reaction_window never increases and never falls below MIN_REACTION_WINDOW;
\* it changes only in a record_reaction made while a signal is active, which
\* leaves at least 20 recorded results of whose last 20 at least 80% are
\* successes; and a record_reaction made with no active signal returns False
\* and changes neither results nor reaction_window.
C22_ReactionWindowShrinksToFloor ==
    /\ [](spc = "run" => reaction_window >= MIN_REACTION_WINDOW)
    /\ [][spc = "run" =>
            /\ reaction_window' <= reaction_window
            /\ reaction_window' # reaction_window =>
                   /\ current_signal # "None"
                   /\ Len(results') = Len(results) + 1
                   /\ Len(results') >= ADAPTIVE_WINDOW_CHECK
                   /\ 100 * Cardinality(
                          {i \in (Len(results') - ADAPTIVE_WINDOW_CHECK + 1)
                                    .. Len(results') : results'[i][2]})
                        >= SUCCESS_THRESHOLD * ADAPTIVE_WINDOW_CHECK
            /\ current_signal = "None" /\ current_signal' = "None" =>
                   /\ returned' = FALSE
                   /\ results' = results
                   /\ reaction_window' = reaction_window
       ]_vars

\* after some missed reactions the window has come down to its floor, and a
\* reaction recorded with no active signal has returned False
C22_Witness ==
    /\ spc = "run"
    /\ reaction_window = MIN_REACTION_WINDOW
    /\ \E i \in DOMAIN results : ~results[i][2]
    /\ results[Len(results)][2]
    /\ current_signal = "None"
    /\ returned = FALSE

====
